---- MODULE Spec2Model ----
(***************************************************************************)
(* A model of zorflendex.space's canvas animation (src/main.js): the       *)
(* AnimatedSprite playback machine, the Pokemon entity state machine, the  *)
(* loading of the animation data and the pointer / resize / frame handlers *)
(* of main(); and the gated frame callback of the later revision           *)
(* (src/unnamed/part_000).                                                 *)
(*                                                                         *)
(* Conventions.  Indices are 0-based as in the JavaScript (frameIndex,     *)
(* rowIndex, directionIndex, findIndex); a TLA+ sequence is read at i + 1. *)
(* An object reference is modelled by the index of the object: a sprite's  *)
(* "animations" is the index of the character in AnimDataList and its      *)
(* "currentAnimation" the (0-based) index in that character's list.        *)
(* JavaScript's undefined is the value Undefined.  A method that can throw *)
(* returns the record [sprite, thrown]: the state it leaves behind and the *)
(* error, NoError when it returns normally.                                *)
(***************************************************************************)
EXTENDS Integers, Sequences, FiniteSets, TLC

VARIABLES
    maxRows,          \* let maxRows (main.js:7)
    maxCols,          \* let maxCols (main.js:8)
    canvasWidth,      \* canvas.width
    canvasHeight,     \* canvas.height
    entities,         \* const entities: the Pokemon objects, in order
    selectedPokemon,  \* let selectedPokemon: index in entities, or Undefined
    sprite,           \* an AnimatedSprite driven directly (SpriteSpec)
    ticks,            \* update() calls since the sprite's last play(), or Undefined
    before,           \* that sprite as it was before the last call on it
    conv,             \* a cell taken through toCoordinate and back (ConvSpec)
    load,             \* main()'s start: the loads under way (LoadSpec)
    gate,             \* the gated frame callback of part_000 (GateSpec)
    lastCall          \* the call that produced this state

vars == <<maxRows, maxCols, canvasWidth, canvasHeight, entities,
          selectedPokemon, sprite, ticks, before, conv, load, gate,
          lastCall>>

gridVars == <<maxRows, maxCols, canvasWidth, canvasHeight>>
worldVars == <<entities, selectedPokemon>>
spriteVars == <<sprite, ticks, before>>
auxVars == <<conv, load, gate>>

-----------------------------------------------------------------------------
(* Program constants *)

SCALE == 3

CELL_LENGTH == 22

\* MOVE_DIRECTIONS with the offsets of directions 1 and 3 exchanged.
MOVE_DIRECTIONS_exchanged ==
    << <<1, 0>>, <<-1, 1>>, <<0, 1>>, <<1, 1>>,
       <<-1, 0>>, <<-1, -1>>, <<0, -1>>, <<1, -1>> >>

MOVE_DIRECTIONS ==
    << <<1, 0>>, <<1, 1>>, <<0, 1>>, <<-1, 1>>,
       <<-1, 0>>, <<-1, -1>>, <<0, -1>>, <<1, -1>> >>

\* const MIN_DELTA_TIME of the later revision (part_000:4)
MIN_DELTA_TIME == 16

\* The animation Pokemon.pickUp plays.
PICKUP_ANIMATION == "Cringe"

\* JavaScript's undefined, for the fields that hold a number or an index.
Undefined == -1000

NoError == "none"
NotFoundError == "Failed to find animation"
RangeError == "Row is out of range"

-----------------------------------------------------------------------------
(* Bounds of the model *)

\* Math.random() is drawn from { k / RandomGrain : k \in 0 .. RandomGrain-1 }.
RandomGrain == 8

\* update() is not called on a sprite whose remaining frame duration has
\* fallen to -MaxOverrun (a sprite held on its last frame counts down for ever).
MaxOverrun == 6

\* setRow is called with the rows 0 .. MaxRowArg.
MaxRowArg == 8

\* The grid has MinGrid .. MaxGrid rows and columns where a Pokemon is driven
\* directly, and place() is called with the cells -1 .. MaxGrid.
MinGrid == 3
MaxGrid == 4

\* main() constructs NumEntities Pokemon.
NumEntities == 1

\* update() is not called on a picked-up Pokemon whose action timer has reached
\* MaxHoldTicks (the timer of a held Pokemon counts up for ever).
MaxHoldTicks == 3

\* An entity is set down, or left by a shrinking grid, up to RecoverOvershoot
\* cells beyond the last row and the last column.
RecoverOvershoot == 1

\* The gated frame callback is called with timestamps up to GateTimeLimit ms.
GateTimeLimit == 50

-----------------------------------------------------------------------------
(* Animation data: what loadAnimation returns for a character.  animSprites *)
(* is the frame grid, [direction row][frame], a frame named by its tile.    *)

FrameGrid(rows, cols) ==
    [i \in 1..rows |-> [j \in 1..cols |-> <<i - 1, j - 1>>]]

AnimationData(name, durations, rows) ==
    [name |-> name, frameWidth |-> 32, frameHeight |-> 40,
     durations |-> durations, animSprites |-> FrameGrid(rows, Len(durations))]

\* Character 1 is that of the entities of the page, character 2 that of the
\* sprite driven directly, character 3 that of the Pokemon driven directly.
AnimDataList ==
    << << AnimationData("Walk", <<1, 1>>, 8),
          AnimationData("Idle", <<1>>, 8),
          AnimationData("Cringe", <<1, 1>>, 8) >>,
       << AnimationData("Idle", <<10, 10, 10>>, 8),
          AnimationData("Walk", <<2, 1, 3>>, 8),
          AnimationData("Sleep", <<2, 2>>, 1) >>,
       << AnimationData("Walk", <<1, 2>>, 8),
          AnimationData("Idle", <<2, 1>>, 8),
          AnimationData("Cringe", <<1, 1>>, 8) >> >>

AnimationNames == {"Walk", "Idle", "Cringe", "Sleep", "Dance"}

RECURSIVE SumSeq(_)
\* durations.reduce((duration, acc) => acc + duration, 0)
SumSeq(s) == IF s = << >> THEN 0 ELSE Head(s) + SumSeq(Tail(s))

-----------------------------------------------------------------------------
(* class AnimatedSprite *)

\* constructor(animations)
AnimatedSprite_new(animations) ==
    [animations |-> animations,
     currentAnimation |-> 0,
     frameIndex |-> 0,
     rowIndex |-> 0,
     remainingFrameDuration |-> 0,
     paused |-> TRUE]

\* this.currentAnimation, dereferenced
CurrentAnimation(s) == AnimDataList[s.animations][s.currentAnimation + 1]

Returns(s) == [sprite |-> s, thrown |-> NoError]
Throws(s, error) == [sprite |-> s, thrown |-> error]

rowCount(s) == Len(CurrentAnimation(s).animSprites)

\* setRow with the range test off by one (> for >=).
setRow_offByOne(s, rowIndex) ==
    IF rowIndex > rowCount(s)
    THEN Throws(s, RangeError)
    ELSE Returns([s EXCEPT !.rowIndex = rowIndex])

setRow(s, rowIndex) ==
    IF rowIndex >= rowCount(s)
    THEN Throws(s, RangeError)
    ELSE Returns([s EXCEPT !.rowIndex = rowIndex])

\* animations.findIndex(animation => animation.name === animationId)
findIndex(animations, animationId) ==
    LET hits == {i \in 1..Len(animations) : animations[i].name = animationId}
    IN  IF hits = {} THEN -1
        ELSE (CHOOSE i \in hits : \A j \in hits : i <= j) - 1

resetPlayback(s) ==
    [s EXCEPT !.frameIndex = 0,
              !.remainingFrameDuration = CurrentAnimation(s).durations[1]]

\* play without the test of the row index against the new animation's rows.
play_keepsRow(s, animationId) ==
    LET index == findIndex(AnimDataList[s.animations], animationId)
        s1 == [s EXCEPT !.currentAnimation = index]
    IN  IF index = -1 THEN Throws(s, NotFoundError)
        ELSE Returns([resetPlayback(s1) EXCEPT !.paused = FALSE])

\* play that un-pauses before it looks the animation up.
play_unpausesFirst(s, animationId) ==
    LET index == findIndex(AnimDataList[s.animations], animationId)
        s0 == [s EXCEPT !.paused = FALSE]
        s1 == [s0 EXCEPT !.currentAnimation = index]
        row == IF s1.rowIndex >= rowCount(s1) THEN setRow(s1, 0) ELSE Returns(s1)
    IN  IF index = -1 THEN Throws(s0, NotFoundError)
        ELSE IF row.thrown # NoError THEN row
        ELSE Returns(resetPlayback(row.sprite))

play(s, animationId) ==
    LET index == findIndex(AnimDataList[s.animations], animationId)
        s1 == [s EXCEPT !.currentAnimation = index]
        row == IF s1.rowIndex >= rowCount(s1) THEN setRow(s1, 0) ELSE Returns(s1)
    IN  IF index = -1 THEN Throws(s, NotFoundError)
        ELSE IF row.thrown # NoError THEN row
        ELSE Returns([resetPlayback(row.sprite) EXCEPT !.paused = FALSE])

stop(s) == [s EXCEPT !.paused = TRUE]

isEndReached(s) ==
    /\ s.remainingFrameDuration <= 0
    /\ s.frameIndex = Len(CurrentAnimation(s).durations) - 1

\* update that advances a frame one tick late (< 0 for <= 0).
AnimatedSprite_update_late(s) ==
    LET s1 == [s EXCEPT !.remainingFrameDuration = @ - 1]
    IN  IF s.paused THEN s
        ELSE IF isEndReached(s1) THEN s1
        ELSE IF s1.remainingFrameDuration < 0
        THEN [s1 EXCEPT !.frameIndex = @ + 1,
                        !.remainingFrameDuration =
                            CurrentAnimation(s1).durations[s1.frameIndex + 2]]
        ELSE s1

\* update without the paused test.
AnimatedSprite_update_ignoresPause(s) ==
    LET s1 == [s EXCEPT !.remainingFrameDuration = @ - 1]
    IN  IF isEndReached(s1) THEN s1
        ELSE IF s1.remainingFrameDuration <= 0
        THEN [s1 EXCEPT !.frameIndex = @ + 1,
                        !.remainingFrameDuration =
                            CurrentAnimation(s1).durations[s1.frameIndex + 2]]
        ELSE s1

AnimatedSprite_update(s) ==
    LET s1 == [s EXCEPT !.remainingFrameDuration = @ - 1]
    IN  IF s.paused THEN s
        ELSE IF isEndReached(s1) THEN s1
        ELSE IF s1.remainingFrameDuration <= 0
        THEN [s1 EXCEPT !.frameIndex = @ + 1,
                        !.remainingFrameDuration =
                            CurrentAnimation(s1).durations[s1.frameIndex + 2]]
        ELSE s1

-----------------------------------------------------------------------------
(* Math.random(): a draw is k / RandomGrain.  The operators below give the  *)
(* values the program's three uses of a draw can take.                      *)

RandomUnit == 0..(RandomGrain - 1)

\* Math.random() < 0.5
RandomBelowHalf == {2 * k < RandomGrain : k \in RandomUnit}

\* Math.floor(Math.random() * n)
RandomFloor(n) == {(k * n) \div RandomGrain : k \in RandomUnit}

-----------------------------------------------------------------------------
(* class Pokemon *)

\* A Vector2D that is undefined.
NoPosition == [x |-> Undefined, y |-> Undefined]

\* (col + 0.5) * CELL_LENGTH and (row + 0.5) * CELL_LENGTH; CELL_LENGTH is even,
\* so both are integers.
toCoordinate(row, col) ==
    [x |-> ((2 * col + 1) * CELL_LENGTH) \div 2,
     y |-> ((2 * row + 1) * CELL_LENGTH) \div 2]

Pokemon_updateGridPosition(p, row, col) ==
    [p EXCEPT !.row = row, !.col = col, !.position = toCoordinate(row, col)]

\* The sum of the current animation's durations, as move, nextState and pickUp
\* compute it.
TotalDuration(s) == SumSeq(CurrentAnimation(s).durations)

\* move that records the previous position after the grid position changed.
Pokemon_move_recordsLate(p) ==
    LET s == setRow(play(p.sprite, "Walk").sprite, p.directionIndex).sprite
        delta == MOVE_DIRECTIONS[p.directionIndex + 1]
        p1 == [p EXCEPT !.sprite = s,
                        !.actionTimer = 0,
                        !.actionDuration = TotalDuration(s)]
        p2 == Pokemon_updateGridPosition(p1, p1.row + delta[1], p1.col + delta[2])
    IN  [p2 EXCEPT !.prevPosition = p2.position]

Pokemon_move(p) ==
    LET s == setRow(play(p.sprite, "Walk").sprite, p.directionIndex).sprite
        delta == MOVE_DIRECTIONS[p.directionIndex + 1]
        p1 == [p EXCEPT !.sprite = s,
                        !.actionTimer = 0,
                        !.actionDuration = TotalDuration(s),
                        !.prevPosition = p.position]
    IN  Pokemon_updateGridPosition(p1, p1.row + delta[1], p1.col + delta[2])

\* The direction with the top margin one row wider: row <= 2 gives down.
ChosenDirection_wideMargin(p, direction) ==
    IF p.row <= 2 THEN 0
    ELSE IF p.col <= 1 THEN 2
    ELSE IF p.row >= maxRows - 1 THEN 4
    ELSE IF p.col >= maxCols - 1 THEN 6
    ELSE direction

\* The direction without the edge rules: always the drawn one.
ChosenDirection_uniform(p, direction) == direction

\* The direction with the column tests made before the row tests.
ChosenDirection_colsFirst(p, direction) ==
    IF p.col <= 1 THEN 2
    ELSE IF p.row <= 1 THEN 0
    ELSE IF p.col >= maxCols - 1 THEN 6
    ELSE IF p.row >= maxRows - 1 THEN 4
    ELSE direction

\* The direction nextState sets: forced near an edge, else the drawn one.
ChosenDirection(p, direction) ==
    IF p.row <= 1 THEN 0
    ELSE IF p.col <= 1 THEN 2
    ELSE IF p.row >= maxRows - 1 THEN 4
    ELSE IF p.col >= maxCols - 1 THEN 6
    ELSE direction

\* nextState that leaves the picked-up flag as it is.
Pokemon_nextState_keepsFlag(p, walks, repeats, direction) ==
    LET p0 == [p EXCEPT !.prevPosition = NoPosition]
        s == play(p0.sprite, "Idle").sprite
    IN  IF walks
        THEN Pokemon_move([p0 EXCEPT !.moveRepeats = 1 + repeats,
                                     !.directionIndex = ChosenDirection(p0, direction)])
        ELSE [p0 EXCEPT !.sprite = s,
                        !.actionTimer = 0,
                        !.actionDuration = TotalDuration(s)]

\* nextState that leaves the previous position as it is.
Pokemon_nextState_keepsPrev(p, walks, repeats, direction) ==
    LET p0 == [p EXCEPT !.isPickedUp = FALSE]
        s == play(p0.sprite, "Idle").sprite
    IN  IF walks
        THEN Pokemon_move([p0 EXCEPT !.moveRepeats = 1 + repeats,
                                     !.directionIndex = ChosenDirection(p0, direction)])
        ELSE [p0 EXCEPT !.sprite = s,
                        !.actionTimer = 0,
                        !.actionDuration = TotalDuration(s)]

\* nextState with its three draws: walks is Math.random() < 0.5, repeats is
\* Math.floor(Math.random() * 2), direction is
\* Math.floor(Math.random() * MOVE_DIRECTIONS.length).
Pokemon_nextState(p, walks, repeats, direction) ==
    LET p0 == [p EXCEPT !.isPickedUp = FALSE, !.prevPosition = NoPosition]
        s == play(p0.sprite, "Idle").sprite
    IN  IF walks
        THEN Pokemon_move([p0 EXCEPT !.moveRepeats = 1 + repeats,
                                     !.directionIndex = ChosenDirection(p0, direction)])
        ELSE [p0 EXCEPT !.sprite = s,
                        !.actionTimer = 0,
                        !.actionDuration = TotalDuration(s)]

\* The draws of one nextState call; a draw that is not made (nextState draws the
\* repeats and the direction only when it walks) is recorded as 0.
Draws ==
    {d \in [walks : RandomBelowHalf,
            repeats : RandomFloor(2),
            direction : RandomFloor(Len(MOVE_DIRECTIONS))] :
        ~d.walks => (d.repeats = 0 /\ d.direction = 0)}

\* constructor(row, col, animatedSprite)
Pokemon_new(row, col, animatedSprite, draw) ==
    Pokemon_nextState(
        Pokemon_updateGridPosition(
            [row |-> Undefined, col |-> Undefined, position |-> NoPosition,
             prevPosition |-> NoPosition, isPickedUp |-> FALSE,
             moveRepeats |-> Undefined, directionIndex |-> Undefined,
             actionTimer |-> Undefined, actionDuration |-> Undefined,
             sprite |-> animatedSprite],
            row, col),
        draw.walks, draw.repeats, draw.direction)

\* update that calls nextState one call late: when the timer has passed the
\* duration.
Pokemon_update_oneLate(p, draw) ==
    LET p1 == [p EXCEPT !.actionTimer = @ + 1,
                        !.sprite = AnimatedSprite_update(@)]
        p2 == IF p1.actionTimer > p1.actionDuration
              THEN Pokemon_nextState(p1, draw.walks, draw.repeats, draw.direction)
              ELSE p1
    IN  IF p1.isPickedUp
        THEN IF isEndReached(p1.sprite)
             THEN [p1 EXCEPT !.sprite = resetPlayback(@)]
             ELSE p1
        ELSE IF isEndReached(p2.sprite) /\ p2.moveRepeats > 0
        THEN [Pokemon_move(p2) EXCEPT !.moveRepeats = @ - 1]
        ELSE p2

\* update without the early return of a picked-up entity.
Pokemon_update_ignoresPickUp(p, draw) ==
    LET p1 == [p EXCEPT !.actionTimer = @ + 1,
                        !.sprite = AnimatedSprite_update(@)]
        p2 == IF p1.actionTimer >= p1.actionDuration
              THEN Pokemon_nextState(p1, draw.walks, draw.repeats, draw.direction)
              ELSE p1
    IN  IF isEndReached(p2.sprite) /\ p2.moveRepeats > 0
        THEN [Pokemon_move(p2) EXCEPT !.moveRepeats = @ - 1]
        ELSE p2

Pokemon_update(p, draw) ==
    LET p1 == [p EXCEPT !.actionTimer = @ + 1,
                        !.sprite = AnimatedSprite_update(@)]
        p2 == IF p1.actionTimer >= p1.actionDuration
              THEN Pokemon_nextState(p1, draw.walks, draw.repeats, draw.direction)
              ELSE p1
    IN  IF p1.isPickedUp
        THEN IF isEndReached(p1.sprite)
             THEN [p1 EXCEPT !.sprite = resetPlayback(@)]
             ELSE p1
        ELSE IF isEndReached(p2.sprite) /\ p2.moveRepeats > 0
        THEN [Pokemon_move(p2) EXCEPT !.moveRepeats = @ - 1]
        ELSE p2

\* The point render() passes to the sprite, its coordinates as fractions
\* num / den: the interpolation between the previous and the current position
\* at t = actionTimer / actionDuration, or the current position.
Pokemon_render(p) ==
    IF p.prevPosition # NoPosition
    THEN [x |-> p.prevPosition.x * (p.actionDuration - p.actionTimer)
                    + p.position.x * p.actionTimer,
          y |-> p.prevPosition.y * (p.actionDuration - p.actionTimer)
                    + p.position.y * p.actionTimer,
          den |-> p.actionDuration]
    ELSE [x |-> p.position.x, y |-> p.position.y, den |-> 1]

\* pickUp that leaves the previous position as it is.
Pokemon_pickUp_keepsPrev(p) ==
    LET s == setRow(play(p.sprite, PICKUP_ANIMATION).sprite, 0).sprite
    IN  [p EXCEPT !.isPickedUp = TRUE,
                  !.sprite = s,
                  !.actionTimer = 0,
                  !.actionDuration = TotalDuration(s)]

Pokemon_pickUp(p) ==
    LET s == setRow(play(p.sprite, PICKUP_ANIMATION).sprite, 0).sprite
    IN  [p EXCEPT !.isPickedUp = TRUE,
                  !.prevPosition = NoPosition,
                  !.sprite = s,
                  !.actionTimer = 0,
                  !.actionDuration = TotalDuration(s)]

Pokemon_place(p, row, col, draw) ==
    Pokemon_nextState(Pokemon_updateGridPosition(p, row, col),
                      draw.walks, draw.repeats, draw.direction)

-----------------------------------------------------------------------------
(* The sprite driven directly: any sequence of calls on one AnimatedSprite. *)

\* lastCall: the call made last, its arguments, what it threw, and the call
\* made before it.  A handler of the page records its name alone.
Call(op, arg, thrown) ==
    [op |-> op, arg |-> arg, thrown |-> thrown, after |-> lastCall.op]

Handler(op) == [op |-> op, arg |-> << >>, thrown |-> NoError, after |-> "none"]

NoCall == [op |-> "new", arg |-> << >>, thrown |-> NoError, after |-> "none"]

\* No conversion under way.
NoConv ==
    [stage |-> "none", row |-> Undefined, col |-> Undefined,
     position |-> NoPosition, droppedRow |-> Undefined, droppedCol |-> Undefined]

\* main() is past its await and nothing is being loaded.
NoLoad == [main |-> "running", chars |-> << >>]

\* The frame callback before its first call: let previousTime = 0, the first
\* requestAnimationFrame(update) made, nothing drawn, no timestamp seen.
NoGate == [previousTime |-> 0, time |-> 0, requested |-> TRUE, drawn |-> 0]

\* The variables of the other specifications, at rest.
AuxIdle ==
    /\ conv = NoConv
    /\ load = NoLoad
    /\ gate = NoGate

\* The grid before any resize(): maxRows and maxCols as declared, and a canvas
\* of the default size of a canvas element.
IdleGrid ==
    /\ maxRows = 10
    /\ maxCols = 10
    /\ canvasWidth = 300
    /\ canvasHeight = 150

SpriteInit ==
    /\ IdleGrid
    /\ entities = << >>
    /\ selectedPokemon = Undefined
    /\ sprite = AnimatedSprite_new(2)
    /\ ticks = Undefined
    /\ before = sprite
    /\ lastCall = NoCall
    /\ AuxIdle

SpritePlay(animationId) ==
    LET r == play(sprite, animationId)
    IN  /\ sprite' = r.sprite
        /\ ticks' = IF r.thrown = NoError THEN 0 ELSE ticks
        /\ lastCall' = Call("play", <<animationId>>, r.thrown)
        /\ before' = sprite
        /\ UNCHANGED <<gridVars, worldVars, auxVars>>

SpriteSetRow(rowIndex) ==
    LET r == setRow(sprite, rowIndex)
    IN  /\ sprite' = r.sprite
        /\ lastCall' = Call("setRow", <<rowIndex>>, r.thrown)
        /\ before' = sprite
        /\ UNCHANGED <<gridVars, worldVars, ticks, auxVars>>

SpriteStop ==
    /\ sprite' = stop(sprite)
    /\ ticks' = Undefined
    /\ lastCall' = Call("stop", << >>, NoError)
        /\ before' = sprite
    /\ UNCHANGED <<gridVars, worldVars, auxVars>>

SpriteResetPlayback ==
    /\ sprite' = resetPlayback(sprite)
    /\ ticks' = Undefined
    /\ lastCall' = Call("resetPlayback", << >>, NoError)
        /\ before' = sprite
    /\ UNCHANGED <<gridVars, worldVars, auxVars>>

SpriteUpdate ==
    /\ sprite.remainingFrameDuration > -MaxOverrun
    /\ sprite' = AnimatedSprite_update(sprite)
    /\ ticks' = IF ticks = Undefined THEN Undefined ELSE ticks + 1
    /\ lastCall' = Call("update", << >>, NoError)
        /\ before' = sprite
    /\ UNCHANGED <<gridVars, worldVars, auxVars>>

SpriteNext ==
    \/ \E animationId \in AnimationNames : SpritePlay(animationId)
    \/ \E rowIndex \in 0..MaxRowArg : SpriteSetRow(rowIndex)
    \/ SpriteStop
    \/ SpriteResetPlayback
    \/ SpriteUpdate

SpriteSpec == SpriteInit /\ [][SpriteNext]_vars

-----------------------------------------------------------------------------
(* One Pokemon driven directly: constructed as main() constructs it, then   *)
(* any sequence of update(), pickUp() and, while it is picked up, place().  *)

GridSizes == MinGrid..MaxGrid

CellRange == (-1)..MaxGrid

\* 1 + Math.floor(Math.random() * (max - 2)): main()'s initial placement.
InitialPlacement(max) == {1 + f : f \in RandomFloor(max - 2)}

PokemonInit ==
    /\ maxRows \in GridSizes
    /\ maxCols \in GridSizes
    /\ canvasWidth = maxCols * CELL_LENGTH * SCALE
    /\ canvasHeight = maxRows * CELL_LENGTH * SCALE
    /\ \E row \in InitialPlacement(maxRows), col \in InitialPlacement(maxCols),
          draw \in Draws :
            entities = << Pokemon_new(row, col, AnimatedSprite_new(3), draw) >>
    /\ selectedPokemon = Undefined
    /\ sprite = AnimatedSprite_new(2)
    /\ ticks = Undefined
    /\ before = sprite
    /\ lastCall = NoCall
    /\ AuxIdle

CallUpdate ==
    /\ entities[1].isPickedUp => entities[1].actionTimer < MaxHoldTicks
    /\ \E draw \in Draws :
        entities' = << Pokemon_update(entities[1], draw) >>
    /\ lastCall' = Call("update", << >>, NoError)
    /\ UNCHANGED <<gridVars, selectedPokemon, spriteVars, auxVars>>

CallPickUp ==
    /\ entities' = << Pokemon_pickUp(entities[1]) >>
    /\ lastCall' = Call("pickUp", << >>, NoError)
    /\ UNCHANGED <<gridVars, selectedPokemon, spriteVars, auxVars>>

CallPlace(row, col) ==
    /\ entities[1].isPickedUp
    /\ \E draw \in Draws :
        entities' = << Pokemon_place(entities[1], row, col, draw) >>
    /\ lastCall' = Call("place", <<row, col>>, NoError)
    /\ UNCHANGED <<gridVars, selectedPokemon, spriteVars, auxVars>>

PokemonNext ==
    \/ CallUpdate
    \/ CallPickUp
    \/ \E row \in CellRange, col \in CellRange : CallPlace(row, col)

PokemonSpec == PokemonInit /\ [][PokemonNext]_vars

-----------------------------------------------------------------------------
(* One Pokemon left to itself: constructed as main() constructs it on a     *)
(* grid that keeps its size, then update() only.                            *)

WalkNext == CallUpdate

WalkSpec == PokemonInit /\ [][WalkNext]_vars

-----------------------------------------------------------------------------
(* One Pokemon on or beyond a grid of at least 4 rows and columns that keeps *)
(* its size: the entity is where a drop, place(row, col), or a shrinking     *)
(* grid left it, and from there on only update() is called.  The frame       *)
(* callback requests itself again, so update() is always called again; an   *)
(* entity that is not picked up then calls nextState() again and again, and  *)
(* its draw Math.random() < 0.5 is assumed to choose walking again and       *)
(* again.                                                                    *)

RecoverGrids == (MinGrid + 1)..(MaxGrid + 1)

RecoverInit ==
    /\ maxRows \in RecoverGrids
    /\ maxCols \in RecoverGrids
    /\ canvasWidth = maxCols * CELL_LENGTH * SCALE
    /\ canvasHeight = maxRows * CELL_LENGTH * SCALE
    /\ \E row \in 0..(maxRows + RecoverOvershoot),
          col \in 0..(maxCols + RecoverOvershoot),
          first \in Draws, draw \in Draws :
            entities = << Pokemon_place(
                            Pokemon_pickUp(Pokemon_new(1, 1, AnimatedSprite_new(3), first)),
                            row, col, draw) >>
    /\ selectedPokemon = Undefined
    /\ sprite = AnimatedSprite_new(2)
    /\ ticks = Undefined
    /\ before = sprite
    /\ lastCall = NoCall
    /\ AuxIdle

RecoverNext == CallUpdate

RecoverSpec == RecoverInit /\ [][RecoverNext]_vars

\* An update() in which nextState() chooses walking.
UpdateWalks ==
    /\ CallUpdate
    /\ entities'[1].actionTimer = 0
    /\ CurrentAnimation(entities'[1].sprite).name = "Walk"

RecoverFairSpec == RecoverSpec /\ WF_vars(CallUpdate) /\ []<><<UpdateWalks>>_vars

-----------------------------------------------------------------------------
(* move() called directly: a Pokemon constructed on the initial 10 x 10     *)
(* grid, then move() with any direction index from any cell of the grid.    *)

MoveInit ==
    /\ IdleGrid
    /\ \E row \in InitialPlacement(maxRows), col \in InitialPlacement(maxCols),
          draw \in Draws :
            entities = << Pokemon_new(row, col, AnimatedSprite_new(3), draw) >>
    /\ selectedPokemon = Undefined
    /\ sprite = AnimatedSprite_new(2)
    /\ ticks = Undefined
    /\ before = sprite
    /\ lastCall = NoCall
    /\ AuxIdle

CallMove(directionIndex) ==
    /\ entities[1].row \in 0..(maxRows - 1)
    /\ entities[1].col \in 0..(maxCols - 1)
    /\ entities' = << Pokemon_move([entities[1] EXCEPT
                                        !.directionIndex = directionIndex]) >>
    /\ lastCall' = Call("move", <<directionIndex>>, NoError)
    /\ UNCHANGED <<gridVars, selectedPokemon, spriteVars, auxVars>>

MoveNext == \E directionIndex \in 0..(Len(MOVE_DIRECTIONS) - 1) : CallMove(directionIndex)

MoveSpec == MoveInit /\ [][MoveNext]_vars

-----------------------------------------------------------------------------
(* The page: resize(), and main()'s entities, pointer handlers and frame    *)
(* callback.  The state starts where main() has built its entities: the     *)
(* DOMContentLoaded resize() has run and every Pokemon is constructed.      *)

\* Math.round(num / den), den > 0: JavaScript rounds a half towards +infinity.
Math_round(num, den) == (2 * num + den) \div (2 * den)

\* The drop conversion without its half-cell offset: Math.round(v / CELL_LENGTH).
DropIndex_noOffset(v) == Math_round(v, CELL_LENGTH)

\* Math.round(v / CELL_LENGTH - 0.5): the cell index setDown and the frame
\* callback compute from a coordinate of the continuous position.
DropIndex(v) == Math_round(2 * v - CELL_LENGTH, 2 * CELL_LENGTH)

\* window.innerWidth and window.innerHeight take these values, and the window
\* is square: a grid of MinGrid .. MaxGrid whole cells, and a last cell cut by
\* one pixel.
ViewportSizes == {(g + 1) * CELL_LENGTH * SCALE - 1 : g \in MinGrid..MaxGrid}

\* The pointer is over a cell, one canvas pixel right of and below its centre
\* (so x / SCALE and y / SCALE are integers), inside the canvas.
PointerCoords(limit) ==
    {v \in {SCALE * (CELL_LENGTH * c + CELL_LENGTH \div 2 + 1) : c \in 0..MaxGrid} :
        v < limit}

resize(innerWidth, innerHeight) ==
    /\ canvasWidth' = innerWidth
    /\ canvasHeight' = innerHeight
    /\ maxRows' = innerHeight \div (CELL_LENGTH * SCALE)
    /\ maxCols' = innerWidth \div (CELL_LENGTH * SCALE)

RECURSIVE NewEntities(_)
\* main()'s loop: the sequences of n Pokemon it can construct.
NewEntities(n) ==
    IF n = 0 THEN {<< >>}
    ELSE {Append(es, Pokemon_new(row, col, AnimatedSprite_new(1), draw)) :
            es \in NewEntities(n - 1),
            row \in InitialPlacement(maxRows),
            col \in InitialPlacement(maxCols),
            draw \in Draws}

Init ==
    /\ \E size \in ViewportSizes :
        /\ canvasWidth = size
        /\ canvasHeight = size
        /\ maxRows = size \div (CELL_LENGTH * SCALE)
        /\ maxCols = size \div (CELL_LENGTH * SCALE)
    /\ entities \in NewEntities(NumEntities)
    /\ selectedPokemon = Undefined
    /\ sprite = AnimatedSprite_new(2)
    /\ ticks = Undefined
    /\ before = sprite
    /\ lastCall = NoCall
    /\ AuxIdle

\* window's "resize" listener
Resize(innerWidth, innerHeight) ==
    /\ resize(innerWidth, innerHeight)
    /\ lastCall' = Handler("resize")
    /\ UNCHANGED <<worldVars, spriteVars, auxVars>>

\* entities.find(pokemon => pokemon.row === row && pokemon.col === col): the
\* index of the first match, or Undefined.
FindEntity(row, col) ==
    LET hits == {i \in 1..Len(entities) :
                    entities[i].row = row /\ entities[i].col = col}
    IN  IF hits = {} THEN Undefined
        ELSE CHOOSE i \in hits : \A j \in hits : i <= j

\* main's pickUp(x, y): the "mousedown" and "touchstart" listeners
main_pickUp(x, y) ==
    LET row == y \div (CELL_LENGTH * SCALE)
        col == x \div (CELL_LENGTH * SCALE)
        pokemon == FindEntity(row, col)
    IN  /\ IF pokemon # Undefined
           THEN /\ selectedPokemon' = pokemon
                /\ entities' = [entities EXCEPT ![pokemon] =
                        [Pokemon_pickUp(@) EXCEPT
                            !.position = [x |-> x \div SCALE, y |-> y \div SCALE]]]
           ELSE UNCHANGED worldVars
        /\ lastCall' = Handler("pickUp")
        /\ UNCHANGED <<gridVars, spriteVars, auxVars>>

\* movePokemon that also moves the held entity to the cell under the pointer.
main_movePokemon_snaps(x, y) ==
    /\ IF selectedPokemon # Undefined
       THEN entities' = [entities EXCEPT ![selectedPokemon] =
                            [@ EXCEPT !.position = [x |-> x \div SCALE, y |-> y \div SCALE],
                                      !.row = y \div (CELL_LENGTH * SCALE),
                                      !.col = x \div (CELL_LENGTH * SCALE)]]
       ELSE UNCHANGED entities
    /\ lastCall' = Handler("movePokemon")
    /\ UNCHANGED <<gridVars, selectedPokemon, spriteVars, auxVars>>

\* main's movePokemon(x, y): the "mousemove" and "touchmove" listeners
main_movePokemon(x, y) ==
    /\ IF selectedPokemon # Undefined
       THEN entities' = [entities EXCEPT ![selectedPokemon].position =
                            [x |-> x \div SCALE, y |-> y \div SCALE]]
       ELSE UNCHANGED entities
    /\ lastCall' = Handler("movePokemon")
    /\ UNCHANGED <<gridVars, selectedPokemon, spriteVars, auxVars>>

\* main's setDown(): the "mouseup", "mouseleave", "touchend" and "touchcancel"
\* listeners
main_setDown ==
    /\ IF selectedPokemon # Undefined
       THEN /\ \E draw \in Draws :
                entities' = [entities EXCEPT ![selectedPokemon] =
                    Pokemon_place(@, DropIndex(@.position.y),
                                  DropIndex(@.position.x), draw)]
            /\ selectedPokemon' = Undefined
       ELSE UNCHANGED worldVars
    /\ lastCall' = Handler("setDown")
    /\ UNCHANGED <<gridVars, spriteVars, auxVars>>

RECURSIVE UpdatedEntities(_)
\* for (let entity of entities) entity.update(): the sequences it can leave.
UpdatedEntities(es) ==
    IF es = << >> THEN {<< >>}
    ELSE {<<q>> \o rest :
            q \in {Pokemon_update(Head(es), draw) : draw \in Draws},
            rest \in UpdatedEntities(Tail(es))}

\* main's update(): the animation-frame callback
main_update ==
    /\ \A i \in 1..Len(entities) :
        entities[i].isPickedUp => entities[i].actionTimer < MaxHoldTicks
    /\ entities' \in UpdatedEntities(entities)
    /\ lastCall' = Handler("update")
    /\ UNCHANGED <<gridVars, selectedPokemon, spriteVars, auxVars>>

Next ==
    \/ \E size \in ViewportSizes : Resize(size, size)
    \/ \E x \in PointerCoords(canvasWidth), y \in PointerCoords(canvasHeight) :
        main_pickUp(x, y)
    \/ \E x \in PointerCoords(canvasWidth), y \in PointerCoords(canvasHeight) :
        main_movePokemon(x, y)
    \/ main_setDown
    \/ main_update

Spec == Init /\ [][Next]_vars

-----------------------------------------------------------------------------
(* The page with two entities on the smallest grid: the pointer handlers    *)
(* and the frame callback, the window keeping its size.  The pointer is     *)
(* over cell (1, 1) or cell (1, 2), as in PointerCoords.                    *)

PairCoordsX == {SCALE * (CELL_LENGTH * c + CELL_LENGTH \div 2 + 1) : c \in 1..2}

PairCoordsY == {SCALE * (CELL_LENGTH * r + CELL_LENGTH \div 2 + 1) : r \in 1..1}

PairInit ==
    /\ canvasWidth = (MinGrid + 1) * CELL_LENGTH * SCALE - 1
    /\ canvasHeight = canvasWidth
    /\ maxRows = canvasHeight \div (CELL_LENGTH * SCALE)
    /\ maxCols = canvasWidth \div (CELL_LENGTH * SCALE)
    /\ entities \in NewEntities(2)
    /\ selectedPokemon = Undefined
    /\ sprite = AnimatedSprite_new(2)
    /\ ticks = Undefined
    /\ before = sprite
    /\ lastCall = NoCall
    /\ AuxIdle

PairNext ==
    \/ \E x \in PairCoordsX, y \in PairCoordsY : main_pickUp(x, y)
    \/ \E x \in PairCoordsX, y \in PairCoordsY : main_movePokemon(x, y)
    \/ main_setDown
    \/ main_update

PairSpec == PairInit /\ [][PairNext]_vars

-----------------------------------------------------------------------------
(* The frame callback of the later revision (part_000), which runs a pass   *)
(* only when enough time has passed since the last one.  Timestamps are in  *)
(* whole milliseconds and grow from one callback to the next.               *)

\* The time between two callbacks: a 120 Hz display, and a 60 Hz display whose
\* 16.67 ms show as 16 or 17.
FrameGaps == {8, 16, 17}

\* The comparison that is due as soon as the time passed equals the minimum.
PassDue_atMinimum(deltaTime) == deltaTime >= MIN_DELTA_TIME

\* if (deltaTime > MIN_DELTA_TIME)
PassDue(deltaTime) == deltaTime > MIN_DELTA_TIME

GateInit ==
    /\ \E size \in ViewportSizes :
        /\ canvasWidth = size
        /\ canvasHeight = size
        /\ maxRows = size \div (CELL_LENGTH * SCALE)
        /\ maxCols = size \div (CELL_LENGTH * SCALE)
    /\ entities \in NewEntities(NumEntities)
    /\ selectedPokemon = Undefined
    /\ sprite = AnimatedSprite_new(2)
    /\ ticks = Undefined
    /\ before = sprite
    /\ conv = NoConv
    /\ load = NoLoad
    /\ gate = NoGate
    /\ lastCall = NoCall

\* update(time): the animation-frame callback of part_000
GateFrame(time) ==
    /\ gate.requested
    /\ time > gate.time
    /\ time <= GateTimeLimit
    /\ IF PassDue(time - gate.previousTime)
       THEN /\ entities' \in UpdatedEntities(entities)
            /\ gate' = [previousTime |-> time, time |-> time, requested |-> TRUE,
                        drawn |-> gate.drawn + 1]
       ELSE /\ UNCHANGED entities
            /\ gate' = [gate EXCEPT !.time = time, !.requested = TRUE]
    /\ lastCall' = Call("frame", <<time>>, NoError)
    /\ UNCHANGED <<gridVars, selectedPokemon, spriteVars, conv, load>>

GateNext == \E gap \in FrameGaps : GateFrame(gate.time + gap)

GateSpec == GateInit /\ [][GateNext]_vars

-----------------------------------------------------------------------------
(* The two conversions, applied one after the other: a cell of the initial  *)
(* grid is taken to its centre by toCoordinate, as updateGridPosition does, *)
(* and the centre back to a cell as setDown converts a drop position.       *)

ConvInit ==
    /\ IdleGrid
    /\ entities = << >>
    /\ selectedPokemon = Undefined
    /\ sprite = AnimatedSprite_new(2)
    /\ ticks = Undefined
    /\ before = sprite
    /\ lastCall = NoCall
    /\ load = NoLoad
    /\ gate = NoGate
    /\ \E row \in 0..(maxRows - 1), col \in 0..(maxCols - 1) :
        conv = [NoConv EXCEPT !.stage = "cell", !.row = row, !.col = col]

\* toCoordinate(row, col)
ConvToCoordinate ==
    /\ conv.stage = "cell"
    /\ conv' = [conv EXCEPT !.stage = "coordinate",
                            !.position = toCoordinate(conv.row, conv.col)]
    /\ lastCall' = Call("toCoordinate", <<conv.row, conv.col>>, NoError)
    /\ UNCHANGED <<gridVars, worldVars, spriteVars, load, gate>>

\* setDown's Math.round(y / CELL_LENGTH - 0.5), Math.round(x / CELL_LENGTH - 0.5)
ConvDrop ==
    /\ conv.stage = "coordinate"
    /\ conv' = [conv EXCEPT !.stage = "dropped",
                            !.droppedRow = DropIndex(conv.position.y),
                            !.droppedCol = DropIndex(conv.position.x)]
    /\ lastCall' = Call("drop", <<conv.position.x, conv.position.y>>, NoError)
    /\ UNCHANGED <<gridVars, worldVars, spriteVars, load, gate>>

ConvNext ==
    \/ ConvToCoordinate
    \/ ConvDrop

ConvSpec == ConvInit /\ [][ConvNext]_vars

-----------------------------------------------------------------------------
(* main()'s start: loadAnimation for every name of pokemonNames, each with  *)
(* one loadSprites per named animation, and main() resuming when all have   *)
(* settled.  An action is one task of the event loop with the promise       *)
(* reactions that follow it: the manifest of a character arriving, an image *)
(* loading or failing, the bitmaps of an image being decoded, a frame.      *)

\* pokemonNames, a name being the index of its character in AnimDataList.
LoadedCharacters == <<1, 3>>

\* `/pokesprites/${pokemonName}/${animation.name}-Anim.png`
ImagePath(pokemonName, name) == <<pokemonName, name>>

\* An Anim element of AnimData.xml as the parser reads it.
Anim(d) ==
    [name |-> d.name, frameWidth |-> d.frameWidth, frameHeight |-> d.frameHeight,
     durations |-> d.durations]

\* An Anim element without a Name: animation.name stays undefined.
NamelessAnim == [name |-> "", frameWidth |-> 32, frameHeight |-> 40, durations |-> <<1>>]

\* The Anim elements of the character's AnimData.xml: those of AnimDataList and
\* a nameless one after the first.
Manifest(pokemonName) ==
    LET a == AnimDataList[pokemonName]
    IN  <<Anim(a[1]), NamelessAnim>> \o [i \in 1..(Len(a) - 1) |-> Anim(a[i + 1])]

\* The size of the image at a path: the frames of the animation and a ragged
\* edge, one pixel wide and one short of a frame high.
ImageSize(path) ==
    LET a == AnimDataList[path[1]]
        d == a[CHOOSE i \in 1..Len(a) : a[i].name = path[2]]
    IN  [width |-> d.frameWidth * Len(d.durations) + 1,
         height |-> d.frameHeight * Len(d.animSprites) + d.frameHeight - 1]

\* createImageBitmap(image, sx, sy, sw, sh): the bitmap is named by its source.
createImageBitmap(image, sx, sy, sw, sh) ==
    [image |-> image, sx |-> sx, sy |-> sy, sw |-> sw, sh |-> sh]

\* The value of Promise.all with the values in the order the promises were
\* fulfilled in.
Promise_all_values_byCompletion(values, order) ==
    [i \in 1..Len(values) |-> values[order[i]]]

\* The value Promise.all(promises) is fulfilled with: the values of the
\* promises in the order of the promises, whatever the order (a sequence of
\* indices) they were fulfilled in.
Promise_all_values(values, order) == values

\* Orders in which n bitmaps are decoded: first to last, and last to first.
DecodeOrders(n) == {[k \in 1..n |-> k], [k \in 1..n |-> n + 1 - k]}

\* The number of createImageBitmap calls image.onload makes.
FrameCount(path, frameWidth, frameHeight) ==
    (ImageSize(path).height \div frameHeight) * (ImageSize(path).width \div frameWidth)

\* frameMatrix with the frames taken column by column: frames[j * rows + i].
frameMatrix_columnMajor(path, frameWidth, frameHeight, order) ==
    LET rows == ImageSize(path).height \div frameHeight
        cols == ImageSize(path).width \div frameWidth
        framePromises == [k \in 1..(rows * cols) |->
                            createImageBitmap(path, frameWidth * ((k - 1) % cols),
                                              frameHeight * ((k - 1) \div cols),
                                              frameWidth, frameHeight)]
        frames == Promise_all_values(framePromises, order)
    IN  [i \in 1..rows |-> [j \in 1..cols |-> frames[(j - 1) * rows + (i - 1) + 1]]]

\* image.onload and the reaction to Promise.all(framePromises): the bitmaps in
\* the order they were pushed, decoded in the given order, then
\* frameMatrix[i][j] = frames[i * cols + j].
frameMatrix(path, frameWidth, frameHeight, order) ==
    LET rows == ImageSize(path).height \div frameHeight
        cols == ImageSize(path).width \div frameWidth
        framePromises == [k \in 1..(rows * cols) |->
                            createImageBitmap(path, frameWidth * ((k - 1) % cols),
                                              frameHeight * ((k - 1) \div cols),
                                              frameWidth, frameHeight)]
        frames == Promise_all_values(framePromises, order)
    IN  [i \in 1..rows |-> [j \in 1..cols |-> frames[(i - 1) * cols + (j - 1) + 1]]]

\* Promise.all that is fulfilled as soon as one of its promises is.
Promise_all_any(states) ==
    IF \E i \in 1..Len(states) : states[i] = "rejected" THEN "rejected"
    ELSE IF \E i \in 1..Len(states) : states[i] = "fulfilled" THEN "fulfilled"
    ELSE "pending"

\* Promise.all that waits for every promise to settle and is then fulfilled,
\* whether or not one was rejected.
Promise_all_settled(states) ==
    IF \A i \in 1..Len(states) : states[i] \in {"fulfilled", "rejected"}
    THEN "fulfilled"
    ELSE "pending"

\* The state of Promise.all(promises), from the states of the promises.
Promise_all(states) ==
    IF \E i \in 1..Len(states) : states[i] = "rejected" THEN "rejected"
    ELSE IF \A i \in 1..Len(states) : states[i] = "fulfilled" THEN "fulfilled"
    ELSE "pending"

\* The state of the promise of a loadSprites or a loadAnimation call.
PromiseState(stage) ==
    IF stage \in {"fulfilled", "rejected"} THEN stage ELSE "pending"

\* loadAnimation up to its await Promise.all(spritePromises): a descriptor and
\* a loadSprites call for every Anim element that has a name.
loadAnimation_parse(pokemonName) ==
    LET animations == SelectSeq(Manifest(pokemonName), LAMBDA e : e.name # "")
    IN  [stage |-> "sprites",
         order |-> << >>,
         animations |-> animations,
         loads |-> [i \in 1..Len(animations) |->
                     [path |-> ImagePath(pokemonName, animations[i].name),
                      frameWidth |-> animations[i].frameWidth,
                      frameHeight |-> animations[i].frameHeight,
                      stage |-> "loading",
                      result |-> << >>]]]

\* animations[i].animSprites = spriteMatrices[i]
WithSprites(animation, matrix) ==
    [f \in DOMAIN animation \cup {"animSprites"} |->
        IF f = "animSprites" THEN matrix ELSE animation[f]]

\* loadAnimation after its await: once every loadSprites promise is fulfilled
\* the matrices are attached and the call returns; once one is rejected the
\* call rejects.  ch.order is the order the promises were fulfilled in, which
\* nothing reads once Promise.all has settled.
loadAnimation_resume(ch) ==
    LET all == Promise_all([i \in 1..Len(ch.loads) |-> PromiseState(ch.loads[i].stage)])
    IN  IF ch.stage # "sprites" THEN ch
        ELSE IF all = "fulfilled"
        THEN LET spriteMatrices ==
                    Promise_all_values([i \in 1..Len(ch.loads) |-> ch.loads[i].result],
                                       ch.order)
             IN  [ch EXCEPT !.stage = "fulfilled",
                            !.order = << >>,
                            !.animations = [i \in 1..Len(@) |->
                                              WithSprites(@[i], spriteMatrices[i])]]
        ELSE IF all = "rejected" THEN [ch EXCEPT !.stage = "rejected", !.order = << >>]
        ELSE ch

RECURSIVE LoadedEntities(_)
\* main()'s loop over the loaded characters: the sequences of n Pokemon it can
\* construct, animData being animDataList[Math.floor(Math.random() * length)].
LoadedEntities(n) ==
    IF n = 0 THEN {<< >>}
    ELSE {Append(es, Pokemon_new(row, col,
                                 AnimatedSprite_new(LoadedCharacters[1 + k]), draw)) :
            es \in LoadedEntities(n - 1),
            row \in InitialPlacement(maxRows),
            col \in InitialPlacement(maxCols),
            k \in RandomFloor(Len(LoadedCharacters)),
            draw \in Draws}

\* main() after await Promise.all(...): with the loadAnimation promises as in
\* chars, it builds its entities and requests the first frame once all are
\* fulfilled, and rejects once one is rejected.
main_resume(chars) ==
    LET all == Promise_all([k \in 1..Len(chars) |-> PromiseState(chars[k].stage)])
    IN  IF load.main = "awaiting" /\ all = "fulfilled"
        THEN /\ load' = [main |-> "running", chars |-> chars]
             /\ entities' \in LoadedEntities(NumEntities)
        ELSE IF load.main = "awaiting" /\ all = "rejected"
        THEN /\ load' = [main |-> "rejected", chars |-> chars]
             /\ UNCHANGED entities
        ELSE /\ load' = [load EXCEPT !.chars = chars]
             /\ UNCHANGED entities

LoadInit ==
    /\ \E size \in ViewportSizes :
        /\ canvasWidth = size
        /\ canvasHeight = size
        /\ maxRows = size \div (CELL_LENGTH * SCALE)
        /\ maxCols = size \div (CELL_LENGTH * SCALE)
    /\ entities = << >>
    /\ selectedPokemon = Undefined
    /\ sprite = AnimatedSprite_new(2)
    /\ ticks = Undefined
    /\ before = sprite
    /\ conv = NoConv
    /\ gate = NoGate
    /\ load = [main |-> "awaiting",
               chars |-> [k \in 1..Len(LoadedCharacters) |->
                            [stage |-> "fetching", order |-> << >>,
                             animations |-> << >>, loads |-> << >>]]]
    /\ lastCall = NoCall

\* The text of a character's AnimData.xml arrives.
ManifestArrives(k) ==
    /\ load.chars[k].stage = "fetching"
    /\ main_resume([load.chars EXCEPT
            ![k] = loadAnimation_resume(loadAnimation_parse(LoadedCharacters[k]))])
    /\ lastCall' = Call("manifest", <<k>>, NoError)
    /\ UNCHANGED <<gridVars, selectedPokemon, spriteVars, conv, gate>>

\* image.onload, up to the createImageBitmap calls
ImageLoads(k, i) ==
    /\ load.chars[k].loads[i].stage = "loading"
    /\ load' = [load EXCEPT !.chars[k].loads[i].stage = "decoding"]
    /\ lastCall' = Call("onload", <<k, i>>, NoError)
    /\ UNCHANGED <<gridVars, worldVars, spriteVars, conv, gate>>

\* image.onerror
ImageFails(k, i) ==
    /\ load.chars[k].loads[i].stage = "loading"
    /\ main_resume([load.chars EXCEPT
            ![k] = loadAnimation_resume(
                      [@ EXCEPT !.loads[i].stage = "rejected"])])
    /\ lastCall' = Call("onerror", <<k, i>>, "Could not load image")
    /\ UNCHANGED <<gridVars, selectedPokemon, spriteVars, conv, gate>>

\* The bitmaps of an image are all decoded: Promise.all(framePromises) is
\* fulfilled and the frame matrix is built.
BitmapsDecoded(k, i) ==
    LET l == load.chars[k].loads[i]
    IN  /\ l.stage = "decoding"
        /\ \E order \in DecodeOrders(FrameCount(l.path, l.frameWidth, l.frameHeight)) :
            main_resume([load.chars EXCEPT
                ![k] = loadAnimation_resume(
                          [@ EXCEPT !.loads[i].stage = "fulfilled",
                                    !.loads[i].result =
                                        frameMatrix(l.path, l.frameWidth,
                                                    l.frameHeight, order),
                                    !.order = IF load.chars[k].stage = "sprites"
                                              THEN Append(@, i) ELSE @])])
        /\ lastCall' = Call("decoded", <<k, i>>, NoError)
        /\ UNCHANGED <<gridVars, selectedPokemon, spriteVars, conv, gate>>

\* The animation-frame callback, requested once main() has resumed.
LoadFrame ==
    /\ load.main = "running"
    /\ main_update

LoadNext ==
    \/ \E k \in 1..Len(LoadedCharacters) : ManifestArrives(k)
    \/ \E k \in 1..Len(LoadedCharacters) : \E i \in 1..Len(load.chars[k].loads) : ImageLoads(k, i)
    \/ \E k \in 1..Len(LoadedCharacters) : \E i \in 1..Len(load.chars[k].loads) : ImageFails(k, i)
    \/ \E k \in 1..Len(LoadedCharacters) : \E i \in 1..Len(load.chars[k].loads) : BitmapsDecoded(k, i)
    \/ LoadFrame

LoadSpec == LoadInit /\ [][LoadNext]_vars

-----------------------------------------------------------------------------
(* Claims about AnimatedSprite, checked under SpriteSpec *)

RECURSIVE PrefixSum(_, _)
\* d_0 + ... + d_(i-1)
PrefixSum(d, i) == IF i = 0 THEN 0 ELSE d[i] + PrefixSum(d, i - 1)

\* C5: k update() ticks after play() of durations d_0..d_(n-1) with sum S, the
\* frame index is the i with d_0+..+d_(i-1) <= k < d_0+..+d_i and the end is not
\* reached while k < S; for every k >= S the frame index is n-1 and the end is
\* reached.
C5_PlaybackTiming ==
    ticks # Undefined =>
        LET d == CurrentAnimation(sprite).durations
            n == Len(d)
            i == sprite.frameIndex
        IN  IF ticks < PrefixSum(d, n)
            THEN /\ i \in 0..(n - 1)
                 /\ PrefixSum(d, i) <= ticks
                 /\ ticks < PrefixSum(d, i + 1)
                 /\ ~isEndReached(sprite)
            ELSE /\ i = n - 1
                 /\ isEndReached(sprite)

\* Durations [10,10,10], 35 ticks after play(): held on frame 2, end reached.
C5_Witness ==
    /\ ticks = 35
    /\ CurrentAnimation(sprite).durations = <<10, 10, 10>>
    /\ sprite.frameIndex = 2
    /\ isEndReached(sprite)

\* C6: play(name) with a name that matches no animation of the sprite fails with
\* the not-found error and leaves every field of the sprite as it was.
C6_PlayUnknownName ==
    (/\ lastCall.op = "play"
     /\ \A a \in 1..Len(AnimDataList[before.animations]) :
            AnimDataList[before.animations][a].name # lastCall.arg[1])
    => /\ lastCall.thrown = NotFoundError
       /\ sprite = before

\* A failed play() on a sprite that was playing, past its first frame.
C6_Witness ==
    /\ lastCall.op = "play"
    /\ lastCall.thrown = NotFoundError
    /\ ~before.paused
    /\ before.frameIndex > 0
    /\ before.rowIndex > 0

\* C7: setRow(r) with r >= the row count of the current animation fails with the
\* out-of-range error and changes no field; with 0 <= r < row count it sets the
\* row index to r and changes nothing else.
C7_SetRow ==
    lastCall.op = "setRow" =>
        LET r == lastCall.arg[1]
            pre == before
        IN  IF r >= Len(CurrentAnimation(pre).animSprites)
            THEN /\ lastCall.thrown = RangeError
                 /\ sprite = pre
            ELSE /\ lastCall.thrown = NoError
                 /\ sprite.rowIndex = r
                 /\ \A f \in DOMAIN pre \ {"rowIndex"} : sprite[f] = pre[f]

\* A failed setRow on a sprite facing a row other than 0, and a row count of 1.
C7_Witness ==
    /\ lastCall.op = "setRow"
    /\ lastCall.thrown = RangeError
    /\ lastCall.arg[1] = 1
    /\ Len(CurrentAnimation(sprite).animSprites) = 1

\* C8: update() on a paused sprite changes neither the frame index nor the row
\* index.
C8_PausedUpdate ==
    (lastCall.op = "update" /\ before.paused)
    => /\ sprite.frameIndex = before.frameIndex
       /\ sprite.rowIndex = before.rowIndex

\* update() on a sprite stopped in the middle of an animation.
C8_Witness ==
    /\ lastCall.op = "update"
    /\ before.paused
    /\ sprite.frameIndex > 0
    /\ sprite.rowIndex > 0

\* C25: after any sequence of play, setRow, stop, resetPlayback and update
\* calls, failed calls included, on a sprite whose animations have at least one
\* row and positive durations, 0 <= frameIndex < number of durations and
\* 0 <= rowIndex < row count of the current animation, so the frame render()
\* reads exists; and play() of an animation with fewer rows than the row index
\* resets the row to 0.
C25_IndicesInRange ==
    LET a == CurrentAnimation(sprite)
    IN  /\ 0 <= sprite.frameIndex
        /\ sprite.frameIndex < Len(a.durations)
        /\ 0 <= sprite.rowIndex
        /\ sprite.rowIndex < Len(a.animSprites)
        /\ sprite.frameIndex + 1 \in DOMAIN a.animSprites[sprite.rowIndex + 1]
        /\ \A n \in 1..Len(AnimDataList[sprite.animations]) :
            /\ Len(AnimDataList[sprite.animations][n].animSprites) >= 1
            /\ \A f \in 1..Len(AnimDataList[sprite.animations][n].durations) :
                    AnimDataList[sprite.animations][n].durations[f] > 0
        /\ (/\ lastCall.op = "play"
            /\ lastCall.thrown = NoError
            /\ before.rowIndex >= Len(a.animSprites)) => sprite.rowIndex = 0

\* play("Sleep"), an animation of one row, on a sprite that was on row 5 and
\* on the last frame of an animation of three frames.
C25_Witness ==
    /\ lastCall.op = "play"
    /\ lastCall.arg = <<"Sleep">>
    /\ lastCall.thrown = NoError
    /\ before.rowIndex = 5
    /\ before.frameIndex = 2
    /\ sprite.rowIndex = 0
    /\ sprite.frameIndex = 0

-----------------------------------------------------------------------------
(* Claims about Pokemon, checked under PokemonSpec and MoveSpec *)

\* The centre of cell (row, col): ((col + 0.5) * 22, (row + 0.5) * 22).
CellCentre(row, col) == [x |-> 22 * col + 11, y |-> 22 * row + 11]

PlayedAnimation(p) == CurrentAnimation(p.sprite).name

\* pickUp() immediately followed by place(): the state right after the place().
PlacedAfterPickUp == lastCall.op = "place" /\ lastCall.after = "pickUp"

\* C1 as stated: after pickUp() immediately followed by place(r, c) the grid
\* position is (r, c), the picked-up flag is false and the previous position is
\* unset.
C1_Original ==
    PlacedAfterPickUp =>
        /\ entities[1].row = lastCall.arg[1]
        /\ entities[1].col = lastCall.arg[2]
        /\ ~entities[1].isPickedUp
        /\ entities[1].prevPosition = NoPosition

\* C1 as amended: after pickUp() immediately followed by place(r, c) the
\* picked-up flag is false, and either nextState() chose idle, the grid position
\* is (r, c) and the previous position is unset, or it chose walking and move()
\* has run: the previous position is the centre of (r, c) and the grid position
\* is (r, c) plus the offset of the direction index.
C1_PlaceAfterPickUp ==
    PlacedAfterPickUp =>
        LET p == entities[1]
            r == lastCall.arg[1]
            c == lastCall.arg[2]
        IN  /\ ~p.isPickedUp
            /\ \/ /\ PlayedAnimation(p) = "Idle"
                  /\ p.row = r
                  /\ p.col = c
                  /\ p.position = CellCentre(r, c)
                  /\ p.prevPosition = NoPosition
               \/ /\ PlayedAnimation(p) = "Walk"
                  /\ p.directionIndex \in 0..7
                  /\ p.row = r + MOVE_DIRECTIONS[p.directionIndex + 1][1]
                  /\ p.col = c + MOVE_DIRECTIONS[p.directionIndex + 1][2]
                  /\ p.prevPosition = CellCentre(r, c)

\* pickUp() then place(2, 3) on a grid where (2, 3) is an inner cell, idle chosen.
C1_Witness ==
    /\ PlacedAfterPickUp
    /\ lastCall.arg = <<2, 3>>
    /\ PlayedAnimation(entities[1]) = "Idle"
    /\ entities[1].row = 2
    /\ entities[1].col = 3

\* C2 as stated: when the Walk animation of an un-picked entity reaches its end
\* in an update() while move-repeats remain, that update() moves the entity one
\* more cell in the same direction, without a new direction or counter, and
\* decrements the counter.
C2_Original ==
    [][(/\ lastCall'.op = "update"
        /\ ~entities[1].isPickedUp
        /\ PlayedAnimation(entities[1]) = "Walk"
        /\ entities[1].moveRepeats > 0
        /\ isEndReached(AnimatedSprite_update(entities[1].sprite)))
       => LET p == entities[1]
              delta == MOVE_DIRECTIONS[p.directionIndex + 1]
          IN  /\ entities'[1].directionIndex = p.directionIndex
              /\ entities'[1].moveRepeats = p.moveRepeats - 1
              /\ entities'[1].row = p.row + delta[1]
              /\ entities'[1].col = p.col + delta[2]]_vars

\* The values nextState() can give the move-repeat counter of p when it walks.
WalkRepeats(p) ==
    {Pokemon_nextState(p, d.walks, d.repeats, d.direction).moveRepeats :
        d \in {d \in Draws : d.walks}}

\* The i-th neighbour (1..8) of cell (r, c), in the order C9 lists them.
Neighbours(r, c) ==
    << <<r + 1, c>>, <<r + 1, c + 1>>, <<r, c + 1>>, <<r - 1, c + 1>>,
       <<r - 1, c>>, <<r - 1, c - 1>>, <<r, c - 1>>, <<r + 1, c - 1>> >>

\* The frame durations of the animation named Walk of p's character.
WalkDurations(p) ==
    LET walk == {a \in 1..Len(AnimDataList[p.sprite.animations]) :
                    AnimDataList[p.sprite.animations][a].name = "Walk"}
    IN  AnimDataList[p.sprite.animations][CHOOSE a \in walk : TRUE].durations

\* C3 as stated: whenever nextState() enters walking the move-repeat counter is
\* set to a value in {1, 2, 3}, and each of 1, 2 and 3 can occur.
C3_Original == WalkRepeats(entities[1]) = {1, 2, 3}

\* C9: from every cell (r, c) of the grid and for every direction index d in
\* 0..7, move() takes the entity to (r, c) plus the d-th offset; over d = 0..7
\* these are the 8 distinct neighbours (r+1,c), (r+1,c+1), (r,c+1), (r-1,c+1),
\* (r-1,c), (r-1,c-1), (r,c-1), (r+1,c-1), in this order.
C9_MoveNeighbours ==
    [][lastCall'.op = "move" =>
        /\ <<entities'[1].row, entities'[1].col>> =
              Neighbours(entities[1].row, entities[1].col)[lastCall'.arg[1] + 1]
        /\ Cardinality({Neighbours(entities[1].row, entities[1].col)[d] :
                            d \in 1..8}) = 8]_vars

\* move() with direction index 0 from (5, 5): the entity is at (6, 5).
C9_Witness ==
    /\ lastCall.op = "move"
    /\ lastCall.arg = <<0>>
    /\ entities[1].row = 6
    /\ entities[1].col = 5
    /\ entities[1].prevPosition = CellCentre(5, 5)

\* C10: immediately after move() the previous position is the continuous
\* position the entity had before the call, the centre of the cell it left; the
\* continuous position is the centre of the new cell; the action timer is 0; the
\* action duration is the sum of the Walk animation's frame durations; and the
\* sprite plays Walk, from its first frame, on the row of the direction index.
C10_AfterMove ==
    [][lastCall'.op = "move" =>
        LET p == entities[1]
            q == entities'[1]
        IN  /\ q.prevPosition = p.position
            /\ q.prevPosition = CellCentre(p.row, p.col)
            /\ q.position = CellCentre(q.row, q.col)
            /\ q.actionTimer = 0
            /\ q.actionDuration = PrefixSum(WalkDurations(q), Len(WalkDurations(q)))
            /\ PlayedAnimation(q) = "Walk"
            /\ ~q.sprite.paused
            /\ q.sprite.frameIndex = 0
            /\ q.sprite.rowIndex = lastCall'.arg[1]
            /\ q.directionIndex = lastCall'.arg[1]]_vars

\* move() with direction index 3 from a cell the entity had walked to.
C10_Witness ==
    /\ lastCall.op = "move"
    /\ lastCall.after = "move"
    /\ lastCall.arg = <<3>>
    /\ entities[1].prevPosition # NoPosition
    /\ entities[1].prevPosition # entities[1].position
    /\ entities[1].sprite.rowIndex = 3
    /\ entities[1].actionTimer = 0

\* C4 as stated: in every reachable state every entity's grid cell is inside the
\* current grid: 0 <= row < maxRows and 0 <= col < maxCols.
C4_Original ==
    \A i \in 1..Len(entities) :
        /\ 0 <= entities[i].row /\ entities[i].row < maxRows
        /\ 0 <= entities[i].col /\ entities[i].col < maxCols

-----------------------------------------------------------------------------
(* Claims about the coordinate conversions *)

\* C11: converting a grid cell to its continuous coordinate with toCoordinate
\* and that coordinate back with the drop conversion gives the cell again.
C11_RoundTrip ==
    conv.stage = "dropped" =>
        /\ conv.position = [x |-> 22 * conv.col + 11, y |-> 22 * conv.row + 11]
        /\ conv.droppedRow = conv.row
        /\ conv.droppedCol = conv.col

C11_Witness ==
    /\ conv.stage = "dropped"
    /\ conv.row = 9
    /\ conv.col = 0
    /\ conv.droppedRow = 9

-----------------------------------------------------------------------------
(* Claims about the entities of the page, checked under Spec *)

\* The state tag of an entity: picked up, or the action its sprite plays.
IsWalking(p) == ~p.isPickedUp /\ PlayedAnimation(p) = "Walk"

IsIdle(p) == ~p.isPickedUp /\ PlayedAnimation(p) = "Idle"

HasPrevPosition(p) == p.prevPosition # NoPosition

\* C12 as stated: in every reachable state an entity's previous position is set
\* if and only if the entity is walking or picked up, and unset exactly when it
\* is idle.
C12_Original ==
    \A i \in 1..Len(entities) :
        /\ HasPrevPosition(entities[i]) <=>
                (IsWalking(entities[i]) \/ entities[i].isPickedUp)
        /\ ~HasPrevPosition(entities[i]) <=> IsIdle(entities[i])

\* C12 as amended: in every reachable state an entity's previous position is set
\* if and only if the entity is walking; it is unset when the entity is idle and
\* when it is picked up, and a set previous position has both coordinates.
C12_PrevPositionWhileWalking ==
    \A i \in 1..Len(entities) :
        LET p == entities[i]
        IN  /\ HasPrevPosition(p) <=> IsWalking(p)
            /\ (IsIdle(p) \/ p.isPickedUp) => ~HasPrevPosition(p)
            /\ HasPrevPosition(p) =>
                    (p.prevPosition.x # Undefined /\ p.prevPosition.y # Undefined)

\* An entity that was walking is being dragged: its previous position is unset.
C12_Witness ==
    /\ lastCall.op = "movePokemon"
    /\ selectedPokemon = 1
    /\ entities[1].isPickedUp
    /\ entities[1].directionIndex # Undefined
    /\ ~HasPrevPosition(entities[1])

-----------------------------------------------------------------------------
(* Claims about main()'s start, checked under LoadSpec *)

\* Every named Anim element of the character's manifest has its descriptor,
\* with the parsed name and durations and a frame grid of at least one row
\* whose rows have a frame for every duration.
FullyLoaded(k) ==
    LET named == SelectSeq(Manifest(LoadedCharacters[k]), LAMBDA e : e.name # "")
        animations == load.chars[k].animations
    IN  /\ Len(animations) = Len(named)
        /\ \A i \in 1..Len(named) :
            /\ animations[i].name = named[i].name
            /\ animations[i].durations = named[i].durations
            /\ "animSprites" \in DOMAIN animations[i]
            /\ Len(animations[i].animSprites) >= 1
            /\ \A r \in 1..Len(animations[i].animSprites) :
                    Len(animations[i].animSprites[r]) = Len(named[i].durations)

\* C13: no entity is constructed and no frame callback runs until every
\* animation of every loaded character has its manifest parsed and its frame
\* grid attached, in whatever order the manifests arrive and the images load
\* and are decoded.
C13_LoadedBeforeUse ==
    (entities # << >> \/ lastCall.op = "update" \/ load.main = "running") =>
        /\ \A k \in 1..Len(LoadedCharacters) : FullyLoaded(k)
        /\ \A e \in 1..Len(entities) :
                \E k \in 1..Len(LoadedCharacters) :
                    entities[e].sprite.animations = LoadedCharacters[k]

\* A frame callback has run on an entity of the second character.
C13_Witness ==
    /\ lastCall.op = "update"
    /\ load.main = "running"
    /\ Len(entities) >= 1
    /\ entities[1].sprite.animations = LoadedCharacters[2]
    /\ FullyLoaded(1)
    /\ FullyLoaded(2)

Between(v, a, b) == (a <= v /\ v <= b) \/ (b <= v /\ v <= a)

\* C18: at every render() in which the entity's previous position is set,
\* 0 <= actionTimer <= actionDuration and actionDuration > 0, and the drawn
\* point lies on the segment between the previous and the current position.
C18_InterpolationBounded ==
    lastCall.op = "update" =>
        \A i \in 1..Len(entities) :
            LET p == entities[i]
                drawn == Pokemon_render(p)
            IN  HasPrevPosition(p) =>
                    /\ 0 <= p.actionTimer
                    /\ p.actionTimer <= p.actionDuration
                    /\ p.actionDuration > 0
                    /\ drawn.den = p.actionDuration
                    /\ Between(drawn.x, p.prevPosition.x * drawn.den,
                               p.position.x * drawn.den)
                    /\ Between(drawn.y, p.prevPosition.y * drawn.den,
                               p.position.y * drawn.den)

\* A frame in the middle of a walk of two ticks: the entity is drawn half way
\* between the two cell centres.
C18_Witness ==
    /\ lastCall.op = "update"
    /\ HasPrevPosition(entities[1])
    /\ entities[1].actionTimer = 1
    /\ entities[1].actionDuration = 2
    /\ 2 * Pokemon_render(entities[1]).y =
            (entities[1].prevPosition.y + entities[1].position.y)
                * Pokemon_render(entities[1]).den
    /\ entities[1].prevPosition.y # entities[1].position.y

-----------------------------------------------------------------------------
(* Claims about the entities of the page, checked under PairSpec *)

\* C14 as stated: an entity is picked up if and only if it is selectedPokemon,
\* so at most one entity is picked up, and after setDown() none is.
C14_Original ==
    /\ \A i \in 1..Len(entities) : entities[i].isPickedUp <=> selectedPokemon = i
    /\ Cardinality({i \in 1..Len(entities) : entities[i].isPickedUp}) <= 1
    /\ lastCall.op = "setDown" =>
            \A i \in 1..Len(entities) : ~entities[i].isPickedUp

-----------------------------------------------------------------------------
(* Claims about Pokemon.update and nextState, checked under PokemonSpec *)

\* The frame durations of the animation p plays.
PlayedDurations(p) == CurrentAnimation(p.sprite).durations

\* q is p but for its sprite and its action timer.
SameButSpriteAndTimer(p, q) ==
    /\ q.row = p.row
    /\ q.col = p.col
    /\ q.position = p.position
    /\ q.prevPosition = p.prevPosition
    /\ q.isPickedUp = p.isPickedUp
    /\ q.directionIndex = p.directionIndex
    /\ q.moveRepeats = p.moveRepeats
    /\ q.actionDuration = p.actionDuration
    /\ PlayedAnimation(q) = PlayedAnimation(p)
    /\ q.sprite.rowIndex = p.sprite.rowIndex

\* q is at the start of the action nextState() gave it, from cell (r, c).
StartedByNextState(q, r, c) ==
    /\ ~q.isPickedUp
    /\ q.actionTimer = 0
    /\ q.sprite.frameIndex = 0
    /\ q.sprite.remainingFrameDuration = PlayedDurations(q)[1]
    /\ q.actionDuration = PrefixSum(PlayedDurations(q), Len(PlayedDurations(q)))
    /\ \/ /\ PlayedAnimation(q) = "Idle"
          /\ q.prevPosition = NoPosition
          /\ q.row = r
          /\ q.col = c
       \/ /\ PlayedAnimation(q) = "Walk"
          /\ q.prevPosition = CellCentre(r, c)
          /\ q.directionIndex \in 0..7
          /\ <<q.row, q.col>> = Neighbours(r, c)[q.directionIndex + 1]

\* C15: an idle or walk action of an entity that is not picked up lasts exactly
\* its action duration, the sum of the played animation's frame durations, in
\* update() calls: nextState() is invoked in the update() that brings the
\* action timer to the action duration, and in no earlier update().
C15_ActionLength ==
    [][(lastCall'.op = "update" /\ ~entities[1].isPickedUp) =>
        LET p == entities[1]
            q == entities'[1]
        IN  /\ PlayedAnimation(p) \in {"Idle", "Walk"}
            /\ p.actionDuration = PrefixSum(PlayedDurations(p), Len(PlayedDurations(p)))
            /\ 0 <= p.actionTimer
            /\ p.actionTimer < p.actionDuration
            /\ IF p.actionTimer + 1 = p.actionDuration
               THEN StartedByNextState(q, p.row, p.col)
               ELSE /\ q.actionTimer = p.actionTimer + 1
                    /\ SameButSpriteAndTimer(p, q)]_vars

\* An update() that ended an action has called nextState(), which chose walking.
C15_Witness ==
    /\ lastCall.op = "update"
    /\ lastCall.after = "update"
    /\ ~entities[1].isPickedUp
    /\ entities[1].actionTimer = 0
    /\ PlayedAnimation(entities[1]) = "Walk"
    /\ entities[1].prevPosition # NoPosition

\* C16: while an entity is picked up, update() never calls nextState() or
\* move(): it leaves the grid row and column, the continuous position, the
\* picked-up flag, the direction index and the move-repeat counter unchanged
\* and only advances the pick-up animation, restarting it at frame 0 in the
\* update in which it reaches its end; the entity stays picked up until
\* place() is called.
C16_HeldUpdate ==
    [][/\ (lastCall'.op = "update" /\ entities[1].isPickedUp) =>
            LET p == entities[1]
                q == entities'[1]
                last == Len(PlayedDurations(p)) - 1
            IN  /\ SameButSpriteAndTimer(p, q)
                /\ q.isPickedUp
                /\ PlayedAnimation(q) = PICKUP_ANIMATION
                /\ ~q.sprite.paused
                /\ IF p.sprite.remainingFrameDuration > 1
                   THEN /\ q.sprite.frameIndex = p.sprite.frameIndex
                        /\ q.sprite.remainingFrameDuration =
                                p.sprite.remainingFrameDuration - 1
                   ELSE IF p.sprite.frameIndex < last
                   THEN /\ q.sprite.frameIndex = p.sprite.frameIndex + 1
                        /\ q.sprite.remainingFrameDuration =
                                PlayedDurations(p)[p.sprite.frameIndex + 2]
                   ELSE /\ q.sprite.frameIndex = 0
                        /\ q.sprite.remainingFrameDuration = PlayedDurations(p)[1]
       /\ (entities[1].isPickedUp /\ ~entities'[1].isPickedUp) =>
            lastCall'.op = "place"]_vars

\* The second update() of a held entity: the pick-up animation of two ticks has
\* reached its end and is at frame 0 again.
C16_Witness ==
    /\ lastCall.op = "update"
    /\ entities[1].isPickedUp
    /\ entities[1].actionTimer = 2
    /\ entities[1].sprite.frameIndex = 0
    /\ entities[1].sprite.remainingFrameDuration = 1

\* The directions nextState() may set at cell (r, c): the first rule that
\* applies fixes it.
EdgeAwareDirections(r, c) ==
    IF r <= 1 THEN {0}
    ELSE IF c <= 1 THEN {2}
    ELSE IF r >= maxRows - 1 THEN {4}
    ELSE IF c >= maxCols - 1 THEN {6}
    ELSE 0..7

\* C17: when nextState() enters walking, in update() or in place(r, c), the
\* direction is fixed by the first rule that applies: row <= 1 gives 0 (row+1),
\* else col <= 1 gives 2 (col+1), else row >= maxRows-1 gives 4 (row-1), else
\* col >= maxCols-1 gives 6 (col-1); when none applies every index of 0..7 can
\* be chosen.
C17_EdgeAwareDirection ==
    /\ [](LET p == entities[1]
          IN  {Pokemon_nextState(p, TRUE, 0, d).directionIndex :
                    d \in RandomFloor(Len(MOVE_DIRECTIONS))}
                = EdgeAwareDirections(p.row, p.col))
    /\ [][(/\ \/ lastCall'.op = "place"
              \/ lastCall'.op = "update" /\ ~entities[1].isPickedUp
           /\ entities'[1].actionTimer = 0
           /\ PlayedAnimation(entities'[1]) = "Walk") =>
           LET p == entities[1]
               q == entities'[1]
               r == IF lastCall'.op = "place" THEN lastCall'.arg[1] ELSE p.row
               c == IF lastCall'.op = "place" THEN lastCall'.arg[2] ELSE p.col
           IN  /\ q.directionIndex \in EdgeAwareDirections(r, c)
               /\ q.sprite.rowIndex = q.directionIndex
               /\ <<q.row, q.col>> = Neighbours(r, c)[q.directionIndex + 1]]_vars

\* place(2, 2) on the 4 x 4 grid, where no rule applies: the entity walks in
\* direction 5, to (1, 1).
C17_Witness ==
    /\ lastCall.op = "place"
    /\ lastCall.arg = <<2, 2>>
    /\ maxRows = 4
    /\ maxCols = 4
    /\ PlayedAnimation(entities[1]) = "Walk"
    /\ entities[1].directionIndex = 5
    /\ entities[1].row = 1
    /\ entities[1].col = 1

\* C20: a pointer-move changes only the continuous position of the held
\* entity: every entity keeps its grid row and column, flags, timers and
\* sprite, and no entity but the held one changes at all; with no held entity a
\* pointer-move and a pointer-up change no entity.
C20_DragTouchesPositionOnly ==
    [][/\ lastCall'.op = "movePokemon" =>
            /\ selectedPokemon' = selectedPokemon
            /\ Len(entities') = Len(entities)
            /\ \A i \in 1..Len(entities) :
                IF i = selectedPokemon
                THEN entities'[i] =
                        [entities[i] EXCEPT !.position = entities'[i].position]
                ELSE entities'[i] = entities[i]
       /\ (lastCall'.op \in {"movePokemon", "setDown"} /\ selectedPokemon = Undefined) =>
            /\ entities' = entities
            /\ selectedPokemon' = Undefined]_vars

\* The held entity, picked up in cell (1, 1), has been dragged over cell
\* (1, 2): its position is under the pointer and its cell is still (1, 1).
C20_Witness ==
    /\ lastCall.op = "movePokemon"
    /\ Len(entities) = 2
    /\ selectedPokemon = 1
    /\ entities[1].isPickedUp
    /\ entities[1].row = 1
    /\ entities[1].col = 1
    /\ entities[1].position = [x |-> 56, y |-> 34]
    /\ ~entities[2].isPickedUp

-----------------------------------------------------------------------------
(* Claims about the gated frame callback, checked under GateSpec *)

\* C19: an update and render pass runs only in a callback whose timestamp
\* exceeds that of the last executed pass by more than 16 ms, so two executed
\* passes are more than 16 ms apart; a callback that arrives sooner updates no
\* entity, draws nothing and leaves previousTime unchanged; and every callback
\* requests the next one.
C19_FrameGate ==
    [][lastCall'.op = "frame" =>
        LET time == lastCall'.arg[1]
        IN  /\ gate'.requested
            /\ gate'.time = time
            /\ IF time - gate.previousTime > 16
               THEN /\ entities' \in UpdatedEntities(entities)
                    /\ gate'.drawn = gate.drawn + 1
                    /\ gate'.previousTime = time
               ELSE /\ entities' = entities
                    /\ gate'.drawn = gate.drawn
                    /\ gate'.previousTime = gate.previousTime
            /\ gate'.drawn # gate.drawn =>
                    gate'.previousTime - gate.previousTime > 16]_vars

\* A callback 16 ms after an executed pass has been discarded: nothing more is
\* drawn and the next callback is requested.
C19_Witness ==
    /\ lastCall.op = "frame"
    /\ gate.drawn = 1
    /\ gate.time - gate.previousTime = 16
    /\ gate.requested

-----------------------------------------------------------------------------
(* Claims about failed and finished loads, checked under LoadSpec *)

\* The loads of character k whose image failed to load.
FailedLoads(k) ==
    {i \in 1..Len(load.chars[k].loads) : load.chars[k].loads[i].stage = "rejected"}

\* C21: if a sprite-sheet image fails to load, its loadSprites rejects, the
\* loadAnimation of its character rejects and main() rejects: no entity is
\* constructed and no frame callback runs; and the load is not tried again.
C21_FailurePropagates ==
    /\ [](\A k \in 1..Len(LoadedCharacters) :
            FailedLoads(k) # {} =>
                /\ load.chars[k].stage = "rejected"
                /\ load.main = "rejected"
                /\ entities = << >>
                /\ lastCall.op # "update")
    /\ [][\A k \in 1..Len(LoadedCharacters) :
            /\ FailedLoads(k) \subseteq {i \in 1..Len(load'.chars[k].loads) :
                                            load'.chars[k].loads[i].stage = "rejected"}
            /\ load.chars[k].stage # "fetching" =>
                    /\ Len(load'.chars[k].loads) = Len(load.chars[k].loads)
                    /\ \A i \in 1..Len(load.chars[k].loads) :
                            load'.chars[k].loads[i].path = load.chars[k].loads[i].path
            /\ load.chars[k].stage = "rejected" => load'.chars[k].stage = "rejected"
            /\ load.main = "rejected" => load'.main = "rejected"]_vars

\* The second image of the first character failed; the second character's
\* loads all finished afterwards, and main() stays rejected without entities.
C21_Witness ==
    /\ FailedLoads(1) = {2}
    /\ load.chars[1].stage = "rejected"
    /\ load.chars[2].stage = "fulfilled"
    /\ load.main = "rejected"
    /\ entities = << >>
    /\ lastCall.op = "decoded"

\* The Anim elements of the manifest of character k that have a name.
NamedAnims(k) == SelectSeq(Manifest(LoadedCharacters[k]), LAMBDA e : e.name # "")

\* Every frame of the grid is cut from the image at the path.
CutFrom(grid, path) ==
    \A r \in 1..Len(grid) : \A j \in 1..Len(grid[r]) : grid[r][j].image = path

\* C22: every animation descriptor receives the frame grid sliced from its own
\* image: animations[i].animSprites is the result of the load started for
\* animations[i], in whatever order the images load and the bitmaps are
\* decoded; and a manifest entry without a name gets neither a descriptor nor
\* a load.
C22_OwnFrameGrid ==
    \A k \in 1..Len(LoadedCharacters) :
        LET ch == load.chars[k]
        IN  /\ ch.stage # "fetching" =>
                /\ Len(ch.animations) = Len(NamedAnims(k))
                /\ Len(ch.loads) = Len(NamedAnims(k))
                /\ \A i \in 1..Len(ch.animations) :
                    /\ ch.animations[i].name = NamedAnims(k)[i].name
                    /\ ch.animations[i].name # ""
                    /\ ch.loads[i].path =
                            ImagePath(LoadedCharacters[k], ch.animations[i].name)
            /\ ch.stage = "fulfilled" =>
                \A i \in 1..Len(ch.animations) :
                    /\ "animSprites" \in DOMAIN ch.animations[i]
                    /\ ch.animations[i].animSprites = ch.loads[i].result
                    /\ Len(ch.animations[i].animSprites) >= 1
                    /\ CutFrom(ch.animations[i].animSprites,
                               ImagePath(LoadedCharacters[k], ch.animations[i].name))
            /\ ch.stage # "fulfilled" =>
                \A i \in 1..Len(ch.animations) :
                    "animSprites" \notin DOMAIN ch.animations[i]

\* The second image of the first character was the last of its images to be
\* decoded; the descriptors have their grids, each cut from its own image.
C22_Witness ==
    /\ lastCall.op = "decoded"
    /\ lastCall.arg = <<1, 2>>
    /\ lastCall.after = "decoded"
    /\ load.chars[1].stage = "fulfilled"
    /\ Len(load.chars[1].animations) = 3
    /\ CutFrom(load.chars[1].animations[1].animSprites,
               ImagePath(LoadedCharacters[1], NamedAnims(1)[1].name))
    /\ CutFrom(load.chars[1].animations[3].animSprites,
               ImagePath(LoadedCharacters[1], NamedAnims(1)[3].name))

\* C23: for an image of size W x H and a frame size fw x fh, loadSprites yields
\* a grid of floor(H / fh) rows of floor(W / fw) frames each, the frame at
\* [i][j] being the tile cut at (fw * j, fh * i) with size fw x fh.
C23_Slicing ==
    \A k \in 1..Len(LoadedCharacters) :
        \A n \in 1..Len(load.chars[k].loads) :
            LET l == load.chars[k].loads[n]
                W == ImageSize(l.path).width
                H == ImageSize(l.path).height
            IN  l.stage = "fulfilled" =>
                    /\ Len(l.result) = H \div l.frameHeight
                    /\ \A i \in 0..(Len(l.result) - 1) :
                        /\ Len(l.result[i + 1]) = W \div l.frameWidth
                        /\ \A j \in 0..(Len(l.result[i + 1]) - 1) :
                            l.result[i + 1][j + 1] =
                                [image |-> l.path,
                                 sx |-> l.frameWidth * j, sy |-> l.frameHeight * i,
                                 sw |-> l.frameWidth, sh |-> l.frameHeight]

\* An image of 65 x 359 pixels has been cut into 8 rows of 2 frames of
\* 32 x 40: both edges are ragged.
C23_Witness ==
    \E k \in 1..Len(LoadedCharacters) :
        \E n \in 1..Len(load.chars[k].loads) :
            LET l == load.chars[k].loads[n]
            IN  /\ l.stage = "fulfilled"
                /\ ImageSize(l.path) = [width |-> 65, height |-> 359]
                /\ Len(l.result) = 8
                /\ Len(l.result[8]) = 2
                /\ l.result[8][2].sx = 32
                /\ l.result[8][2].sy = 280

-----------------------------------------------------------------------------
(* Claims about an entity left to itself, checked under WalkSpec *)

\* C24: on a fixed grid of at least 3 rows and 3 columns, without resize,
\* pick-up or drop, an entity constructed in the initial placement range has
\* 1 <= row <= maxRows - 1 and 1 <= col <= maxCols - 1 after any number of
\* update() calls, whatever the random choices.
C24_StaysInGrid ==
    /\ maxRows >= 3
    /\ maxCols >= 3
    /\ \A i \in 1..Len(entities) :
        /\ 1 <= entities[i].row
        /\ entities[i].row <= maxRows - 1
        /\ 1 <= entities[i].col
        /\ entities[i].col <= maxCols - 1

\* On a grid of 4 rows the entity has walked from the free cell (2, 2) to the
\* last row and column, (3, 3), in the diagonal direction 1.
C24_Witness ==
    /\ lastCall.op = "update"
    /\ maxRows = 4
    /\ maxCols = 4
    /\ entities[1].row = 3
    /\ entities[1].col = 3
    /\ entities[1].directionIndex = 1
    /\ entities[1].prevPosition = CellCentre(2, 2)

-----------------------------------------------------------------------------
(* Claims about an entity outside the grid, checked under RecoverFairSpec *)

InGrid(p) ==
    /\ 0 <= p.row /\ p.row < maxRows
    /\ 0 <= p.col /\ p.col < maxCols

\* C26: on a grid of at least 4 rows and 4 columns that no longer changes, an
\* entity whose cell is outside the grid and that is not picked up again is
\* eventually in a cell of the grid, provided nextState() chooses walking again
\* and again.
C26_Recovery ==
    /\ [](maxRows >= 4 /\ maxCols >= 4 /\ ~entities[1].isPickedUp)
    /\ (~InGrid(entities[1]) ~> InGrid(entities[1]))

\* On a grid of 4 rows the entity walks up from row 4, outside the grid, into
\* row 3.
C26_Witness ==
    /\ maxRows = 4
    /\ lastCall.op = "update"
    /\ InGrid(entities[1])
    /\ entities[1].row = 3
    /\ entities[1].directionIndex = 4
    /\ entities[1].prevPosition = CellCentre(4, entities[1].col)

====
